---- MODULE Spec2Model ----
(***************************************************************************)
(* toki: a multi-stage countdown timer (src/main.go).                      *)
(*                                                                         *)
(* The model is the Bubble Tea program of main.go: the `model` struct, its *)
(* Update handler (one action per message type), the countdown it embeds   *)
(* (bubbles timer.Model, driven through m.timer.Update / m.timer.Start),   *)
(* the messages in flight between commands and the event loop, and the     *)
(* tail of rootCmd.RunE that turns the final model into an exit status.    *)
(*                                                                         *)
(* Go counts a time.Duration in nanoseconds, in an int64.  Here a        *)
(* duration is a pair: its whole microseconds and the nanoseconds left     *)
(* over (-999..999, of the sign of the duration), so that the durations of *)
(* a session fit the integers of the model checker.  The parser computes   *)
(* in nanoseconds, on numbers of any size.                                 *)
(***************************************************************************)
EXTENDS Integers, Sequences, FiniteSets, TLC

VARIABLES
    durations,     \* model.durations   []time.Duration, whole microseconds
    nanos,         \* model.durations   the nanoseconds left over
    altscreen,     \* model.altscreen   (the --fullscreen flag)
    state,         \* model.state       index of the current stage, from 0
    passed,        \* model.passed      tick-accumulated time in the stage
    start,         \* model.start       ordinal of the time.Now() reading
    timer,         \* model.timer       [Timeout, TimeoutNs, Interval, id,
                   \*                    running]
    progress,      \* model.progress    [width, percent] (percent in 1/100)
    quitting,      \* model.quitting
    interrupting,  \* model.interrupting
    winHeight,     \* package variable winHeight
    lastID,        \* the timer package's id counter
    msgs,          \* messages produced by commands, not yet received
    pc,            \* "loop" | "quit" | "panic" | "exited"
    exitCode,      \* process exit status, -1 while running
    finished,      \* whether "finished!" was printed
    pct,           \* last value of the local pct of the TickMsg handler
    natural,       \* history: the last-stage branch of TimeoutMsg has run
    last,          \* history: the handler branch that ran last
    arg,           \* args[0], the timer argument
    err            \* the error RunE returned before the program ran, or ""

vars == <<durations, nanos, altscreen, state, passed, start, timer, progress,
          quitting, interrupting, winHeight, lastID, msgs, pc, exitCode,
          finished, pct, natural, last, arg, err>>

\* what RunE reads and returns around the program
input == <<arg, err>>

----------------------------------------------------------------------------
(* Units of time.Duration.                                                 *)

Microsecond == 1
Millisecond == 1000 * Microsecond
Second      == 1000 * Millisecond
Minute      == 60 * Second

(* Bound of the model: the longest stage list built from StageDurations.   *)
MaxStages == 3

(* Stage durations: zero, below a millisecond, not a multiple of the tick  *)
(* interval, a multiple of it.                                             *)
StageDurations ==
    { 0, 500 * Microsecond, 250 * Millisecond, 300 * Millisecond }

SeqsUpTo(S, n) == UNION { [1..k -> S] : k \in 1..n }

(* The stage lists of Spec: every list over StageDurations up to the       *)
(* bound, and the two-stage example "2s, 3s".                              *)
StageLists ==
    SeqsUpTo(StageDurations, MaxStages) \cup { <<2 * Second, 3 * Second>> }

(* The stage lists of SpecLong: durations around the one-minute cadence    *)
(* threshold, each met as a first stage and as a later stage.              *)
LongStageLists ==
    { <<60 * Second, 45 * Second>>,
      <<59999 * Millisecond, 60 * Second>>,
      <<45 * Second, 59999 * Millisecond>>,
      <<61 * Second, 60 * Second>> }

(* The stage lists of SpecTick: the "10s" example, and stages whose length  *)
(* is not a whole number of milliseconds or does not divide the percent.   *)
TickStageLists ==
    { <<10 * Second>>,
      <<100 * Millisecond>>,
      <<250500 * Microsecond, 300 * Millisecond>>,
      <<300 * Millisecond, 250500 * Microsecond>> }

(* The nanoseconds a stage has beyond its microseconds: none in Spec and   *)
(* SpecLong, none or 500 in SpecTick.                                      *)
WholeMicros == { 0 }
TickNanos   == { 0, 500 }

(* Bound of the model: the longest timer argument built from ArgAlphabet.  *)
MaxArgLen == 3

(* Characters of the arguments: a digit, the point, the three separators   *)
(* and a letter that is no unit.                                           *)
ArgAlphabet == { "1", ".", ",", "-", " ", "a" }

(* The arguments the specification's examples name.                        *)
ExampleArgs ==
    { <<"5", "m", ",", " ", "1", "0", "m">>,
      <<"5", "m", " ", "1", "0", "m">>,
      <<"5", "m", "-", "1", "0", "m">>,
      <<"5", "m", ",", ",", "1", "0", "m">>,
      <<"5", "m", ",", "1", "0", "m", "-", "1", "5", "m">>,
      <<"a", "b", "c">>,
      << >> }

(* Arguments below a microsecond, and one with the micro sign U+00B5.      *)
ResolutionArgs ==
    { <<"1", "5", "0", "0", "n", "s">>,
      <<"1", ".", "5", "u", "s">>,
      <<"2", "s", "1", "n", "s">>,
      <<"1", "U+00B5", "s">> }

(* The arguments of SpecParse.                                             *)
ArgStrings ==
    ExampleArgs \cup ResolutionArgs \cup { << >> }
        \cup SeqsUpTo(ArgAlphabet, MaxArgLen)

(* Terminal sizes a WindowSizeMsg can carry.                               *)
Widths  == { 60, 120 }
Heights == { 24 }

----------------------------------------------------------------------------
(* Program constants.                                                      *)

padding  == 2
maxWidth == 80
defaultWidth == 40

----------------------------------------------------------------------------
(* Pure functions.                                                         *)

\* time.Duration.Milliseconds: integer division truncating toward zero
Milliseconds(d) ==
    IF d >= 0 THEN d \div Millisecond ELSE -((-d) \div Millisecond)

\* Go's integer division a / b for b # 0, truncating toward zero
GoDiv(a, b) ==
    IF (a >= 0) = (b > 0)
    THEN (IF a >= 0 THEN a ELSE -a) \div (IF b > 0 THEN b ELSE -b)
    ELSE -((IF a >= 0 THEN a ELSE -a) \div (IF b > 0 THEN b ELSE -b))

\* (variant) the one-minute threshold taken as inclusive
timerIntervalInclusive(d) ==
    IF d <= Minute THEN 100 * Millisecond ELSE Second

timerInterval(d) ==
    IF d < Minute THEN 100 * Millisecond ELSE Second

\* durations[i], with Go's 0-based index
Stage(ds, i) == ds[i + 1]

\* whether the duration of us microseconds and ns nanoseconds is above zero
Positive(us, ns) == us > 0 \/ (us = 0 /\ ns > 0)

\* whether durations[i] is an index Go accepts (it panics otherwise)
InRange(ds, i) == i \in 0 .. (Len(ds) - 1)

\* m.state == len(m.durations)-1
LastStage(ds, i) == i = Len(ds) - 1

\* (variant) the index advanced past a stage
SkipStage(i) == i + 2

\* m.state++
NextStage(i) == i + 1

\* (variant) the percent rounded to the nearest integer
PercentRounded(p, d) ==
    GoDiv(Milliseconds(p) * 100 + Milliseconds(d) \div 2, Milliseconds(d))

\* pct := m.passed.Milliseconds() * 100 / m.durations[m.state].Milliseconds()
Percent(p, d) == GoDiv(Milliseconds(p) * 100, Milliseconds(d))

----------------------------------------------------------------------------
(* The timer argument.  A string is a sequence of one-character strings.   *)

Digits == {"0", "1", "2", "3", "4", "5", "6", "7", "8", "9"}

DigitVal(c) ==
    CASE c = "0" -> 0 [] c = "1" -> 1 [] c = "2" -> 2 [] c = "3" -> 3
      [] c = "4" -> 4 [] c = "5" -> 5 [] c = "6" -> 6 [] c = "7" -> 7
      [] c = "8" -> 8 [] c = "9" -> 9

\* the class \s of Go's regexp
WhiteSpace == {" ", "\t", "\n", "\f", "\r"}

\* the class [\s,-] of TIMER_ARG_SEP
SepChars == WhiteSpace \cup {",", "-"}

\* the first index from i on that holds no white space (Len(s) + 1 if none)
RECURSIVE SkipSpace(_, _)
SkipSpace(s, i) ==
    IF i <= Len(s) /\ s[i] \in WhiteSpace THEN SkipSpace(s, i + 1) ELSE i

\* The match of \s*[\s,-]\s* that starts at i, where s[i] is a separator
\* character: the index after it.  The white space is taken greedily; the
\* class takes the comma or hyphen that follows it, or else its last blank.
MatchEnd(s, i) ==
    LET j == SkipSpace(s, i)
    IN  IF j <= Len(s) /\ s[j] \in {",", "-"}
        THEN SkipSpace(s, j + 1)
        ELSE j

\* regexp.Split(s, -1) on a non-empty s: the pieces between the matches,
\* empty ones included, and the piece after the last match
RECURSIVE SplitFrom(_, _, _)
SplitFrom(s, beg, i) ==
    IF i > Len(s) THEN << SubSeq(s, beg, Len(s)) >>
    ELSE IF s[i] \in SepChars
         THEN << SubSeq(s, beg, i - 1) >> \o
              SplitFrom(s, MatchEnd(s, i), MatchEnd(s, i))
         ELSE SplitFrom(s, beg, i + 1)

\* splitTimerArgString; Split gives the one piece "" for the empty string
splitTimerArgString(s) ==
    IF s = << >> THEN << << >> >> ELSE SplitFrom(s, 1, 1)

\* the first index from i on that holds no decimal digit
RECURSIVE DigitsEnd(_, _)
DigitsEnd(s, i) ==
    IF i <= Len(s) /\ s[i] \in Digits THEN DigitsEnd(s, i + 1) ELSE i

\* s without a leading sign
Unsigned(s) ==
    IF s # << >> /\ s[1] \in {"+", "-"} THEN SubSeq(s, 2, Len(s)) ELSE s

----------------------------------------------------------------------------
(* Natural numbers of any size, for the uint64 of time.ParseDuration and   *)
(* the magnitudes of strconv.ParseFloat: the digits as numbers, the        *)
(* highest first, without leading zeros; zero is << >>.  The durations are *)
(* in base 10, the operands of float64 arithmetic in base 2.               *)

\* the index of the first digit of x that is not 0, Len(x) + 1 without one
FirstNonZero(x) ==
    LET nz == { i \in 1 .. Len(x) : x[i] # 0 }
    IN  IF nz = {} THEN Len(x) + 1
        ELSE CHOOSE i \in nz : \A j \in nz : i <= j

\* x without the zeros it begins with
Norm(x) == SubSeq(x, FirstNonZero(x), Len(x))

\* the number of zeros x begins with
LeadingZeros(x) == FirstNonZero(x) - 1

\* x with zeros in front, up to the length n
PadLeft(x, n) ==
    [i \in 1 .. n |-> IF i <= n - Len(x) THEN 0 ELSE x[i - (n - Len(x))]]

\* x with zeros behind, up to the length n
PadRight(x, n) == [i \in 1 .. n |-> IF i <= Len(x) THEN x[i] ELSE 0]

\* x < y for digit sequences of one length
LexLess(x, y) ==
    \E i \in 1 .. Len(x) :
        /\ x[i] < y[i]
        /\ \A k \in 1 .. (i - 1) : x[k] = y[k]

BigLess(x, y) ==
    \/ Len(x) < Len(y)
    \/ Len(x) = Len(y) /\ LexLess(x, y)

\* x + y in the base b: the digit i gets a carry when a digit below it
\* overflows and all the digits between them are b - 1
AddBase(x, y, b) ==
    LET n == IF Len(x) > Len(y) THEN Len(x) ELSE Len(y)
        px == PadLeft(x, n)
        py == PadLeft(y, n)
        carry(i) == \E j \in (i + 1) .. n :
                        /\ px[j] + py[j] >= b
                        /\ \A k \in (i + 1) .. (j - 1) : px[k] + py[k] = b - 1
    IN  IF x = << >> THEN y
        ELSE IF y = << >> THEN x
        ELSE Norm(<< IF carry(0) THEN 1 ELSE 0 >> \o
                  [i \in 1 .. n |->
                      (px[i] + py[i] + IF carry(i) THEN 1 ELSE 0) % b])

BigAdd(x, y) == AddBase(x, y, 10)

\* x * k for a small factor k
RECURSIVE BigTimes(_, _)
BigTimes(x, k) ==
    IF k = 0 THEN << >>
    ELSE IF k % 2 = 1 THEN BigAdd(BigTimes(x, k - 1), x)
    ELSE LET h == BigTimes(x, k \div 2) IN BigAdd(h, h)

\* x * 10^z
BigShift(x, z) == IF x = << >> THEN x ELSE x \o [i \in 1 .. z |-> 0]

\* x divided by 10^n, rounded down
BigDrop(x, n) == IF Len(x) <= n THEN << >> ELSE SubSeq(x, 1, Len(x) - n)

\* x modulo 10^n
BigLast(x, n) ==
    IF Len(x) <= n THEN x ELSE Norm(SubSeq(x, Len(x) - n + 1, Len(x)))

\* the number of the decimal digit characters s
BigOf(s) == Norm([i \in 1 .. Len(s) |-> DigitVal(s[i])])

\* x as an integer of the model
RECURSIVE BigToInt(_)
BigToInt(x) ==
    IF x = << >> THEN 0
    ELSE BigToInt(SubSeq(x, 1, Len(x) - 1)) * 10 + x[Len(x)]

\* 1<<63 = 9223372036854775808 and 1<<64 = 18446744073709551616
TwoTo63 == <<9, 2, 2, 3, 3, 7, 2, 0, 3, 6, 8, 5, 4, 7, 7, 5, 8, 0, 8>>
TwoTo64 ==
    <<1, 8, 4, 4, 6, 7, 4, 4, 0, 7, 3, 7, 0, 9, 5, 5, 1, 6, 1, 6>>

----------------------------------------------------------------------------
(* strconv.ParseFloat(s, 64), as far as its error goes.                    *)

Lower(c) ==
    CASE c = "A" -> "a" [] c = "B" -> "b" [] c = "C" -> "c" [] c = "D" -> "d"
      [] c = "E" -> "e" [] c = "F" -> "f" [] c = "G" -> "g" [] c = "H" -> "h"
      [] c = "I" -> "i" [] c = "J" -> "j" [] c = "K" -> "k" [] c = "L" -> "l"
      [] c = "M" -> "m" [] c = "N" -> "n" [] c = "O" -> "o" [] c = "P" -> "p"
      [] c = "Q" -> "q" [] c = "R" -> "r" [] c = "S" -> "s" [] c = "T" -> "t"
      [] c = "U" -> "u" [] c = "V" -> "v" [] c = "W" -> "w" [] c = "X" -> "x"
      [] c = "Y" -> "y" [] c = "Z" -> "z" [] OTHER -> c

HexLetters == {"a", "b", "c", "d", "e", "f"}

HexVal(c) ==
    CASE c \in Digits -> DigitVal(c)
      [] Lower(c) = "a" -> 10 [] Lower(c) = "b" -> 11 [] Lower(c) = "c" -> 12
      [] Lower(c) = "d" -> 13 [] Lower(c) = "e" -> 14 [] Lower(c) = "f" -> 15

\* special: "inf" and "infinity" with an optional sign and "nan" without
\* one, ignoring case
special(s) ==
    LET l == [i \in 1 .. Len(s) |-> Lower(s[i])]
    IN  \/ Unsigned(l) \in { <<"i", "n", "f">>,
                             <<"i", "n", "f", "i", "n", "i", "t", "y">> }
        \/ l = <<"n", "a", "n">>

\* readFloat's loop over the mantissa from i on: the index it stops at.  It
\* takes digits (hexadecimal ones after "0x"), underscores and one point.
RECURSIVE MantissaEnd(_, _, _, _)
MantissaEnd(s, i, hex, sawdot) ==
    IF i > Len(s) THEN i
    ELSE IF s[i] = "_" THEN MantissaEnd(s, i + 1, hex, sawdot)
    ELSE IF s[i] = "."
         THEN (IF sawdot THEN i ELSE MantissaEnd(s, i + 1, hex, TRUE))
    ELSE IF s[i] \in Digits \/ (hex /\ Lower(s[i]) \in HexLetters)
         THEN MantissaEnd(s, i + 1, hex, sawdot)
    ELSE i

\* readFloat's loop over the exponent's digits and underscores
RECURSIVE ExponentEnd(_, _)
ExponentEnd(s, i) ==
    IF i <= Len(s) /\ s[i] \in (Digits \cup {"_"})
    THEN ExponentEnd(s, i + 1) ELSE i

\* the exponent s[i..j-1] as readFloat adds it up: no more once it is 10000
RECURSIVE ExponentVal(_, _, _, _)
ExponentVal(s, i, j, e) ==
    IF i >= j THEN e
    ELSE ExponentVal(s, i + 1, j,
             IF s[i] # "_" /\ e < 10000 THEN e * 10 + DigitVal(s[i]) ELSE e)

\* underscoreOK from index i on; saw is "^" at the beginning, "0" after a
\* digit or a base prefix, "_" after an underscore and "!" after the rest
RECURSIVE UnderscoreScan(_, _, _, _)
UnderscoreScan(s, i, hex, saw) ==
    IF i > Len(s) THEN saw # "_"
    ELSE IF s[i] \in Digits \/ (hex /\ Lower(s[i]) \in HexLetters)
         THEN UnderscoreScan(s, i + 1, hex, "0")
    ELSE IF s[i] = "_"
         THEN (IF saw # "0" THEN FALSE ELSE UnderscoreScan(s, i + 1, hex, "_"))
    ELSE IF saw = "_" THEN FALSE
    ELSE UnderscoreScan(s, i + 1, hex, "!")

\* underscoreOK: an underscore only between digits or between a base
\* prefix and a digit
underscoreOK(s) ==
    LET u == Unsigned(s)
        prefix == /\ Len(u) >= 2
                  /\ u[1] = "0"
                  /\ Lower(u[2]) \in {"b", "o", "x"}
    IN  UnderscoreScan(u, IF prefix THEN 3 ELSE 1,
                       prefix /\ Lower(u[2]) = "x",
                       IF prefix THEN "0" ELSE "^")

\* readFloat: whether s begins with a number (ok), the index after it (end),
\* whether it is hexadecimal, its mantissa and its exponent
readFloat(s) ==
    LET p0 == IF s # << >> /\ s[1] \in {"+", "-"} THEN 2 ELSE 1
        hex == p0 + 2 <= Len(s) /\ s[p0] = "0" /\ Lower(s[p0 + 1]) = "x"
        p1 == IF hex THEN p0 + 2 ELSE p0
        m == MantissaEnd(s, p1, hex, FALSE)
        sawdigits == \E i \in p1 .. (m - 1) : s[i] \notin {"_", "."}
        hasexp == m <= Len(s) /\ Lower(s[m]) = (IF hex THEN "p" ELSE "e")
        x0 == m + 1
        x1 == IF x0 <= Len(s) /\ s[x0] \in {"+", "-"} THEN x0 + 1 ELSE x0
        expok == x1 <= Len(s) /\ s[x1] \in Digits
        x2 == ExponentEnd(s, x1)
        end == IF hasexp /\ expok THEN x2 ELSE m
    IN  [ok   |-> /\ sawdigits
                  /\ hasexp => expok
                  /\ hex => hasexp
                  /\ underscoreOK(SubSeq(s, 1, end - 1)),
         end  |-> end,
         hex  |-> hex,
         mant |-> SubSeq(s, p1, m - 1),
         exp  |-> IF hasexp /\ expok
                  THEN (IF s[x0] = "-" THEN -1 ELSE 1)
                           * ExponentVal(s, x1, x2, 0)
                  ELSE 0]

IsMantissaDigit(c) == c \notin {"_", "."}

\* the number of digits of the mantissa before its point
IntegerDigits(mant) ==
    LET dots == { i \in 1 .. Len(mant) : mant[i] = "." }
        dot == IF dots = {} THEN Len(mant) + 1 ELSE CHOOSE i \in dots : TRUE
    IN  Len(SelectSeq(SubSeq(mant, 1, dot - 1), IsMantissaDigit))

\* The least magnitude that does not round to a float64: 2^1024 - 2^970,
\* half a unit of the last place above the largest float64 (309 digits).
FloatLimit ==
    <<
       1, 7, 9, 7, 6, 9, 3, 1, 3, 4, 8, 6, 2, 3, 1, 5, 8, 0, 7, 9, 3, 7, 2, 8,
       9, 7, 1, 4, 0, 5, 3, 0, 3, 4, 1, 5, 0, 7, 9, 9, 3, 4, 1, 3, 2, 7, 1, 0,
       0, 3, 7, 8, 2, 6, 9, 3, 6, 1, 7, 3, 7, 7, 8, 9, 8, 0, 4, 4, 4, 9, 6, 8,
       2, 9, 2, 7, 6, 4, 7, 5, 0, 9, 4, 6, 6, 4, 9, 0, 1, 7, 9, 7, 7, 5, 8, 7,
       2, 0, 7, 0, 9, 6, 3, 3, 0, 2, 8, 6, 4, 1, 6, 6, 9, 2, 8, 8, 7, 9, 1, 0,
       9, 4, 6, 5, 5, 5, 5, 4, 7, 8, 5, 1, 9, 4, 0, 4, 0, 2, 6, 3, 0, 6, 5, 7,
       4, 8, 8, 6, 7, 1, 5, 0, 5, 8, 2, 0, 6, 8, 1, 9, 0, 8, 9, 0, 2, 0, 0, 0,
       7, 0, 8, 3, 8, 3, 6, 7, 6, 2, 7, 3, 8, 5, 4, 8, 4, 5, 8, 1, 7, 7, 1, 1,
       5, 3, 1, 7, 6, 4, 4, 7, 5, 7, 3, 0, 2, 7, 0, 0, 6, 9, 8, 5, 5, 5, 7, 1,
       3, 6, 6, 9, 5, 9, 6, 2, 2, 8, 4, 2, 9, 1, 4, 8, 1, 9, 8, 6, 0, 8, 3, 4,
       9, 3, 6, 4, 7, 5, 2, 9, 2, 7, 1, 9, 0, 7, 4, 1, 6, 8, 4, 4, 4, 3, 6, 5,
       5, 1, 0, 7, 0, 4, 3, 4, 2, 7, 1, 1, 5, 5, 9, 6, 9, 9, 5, 0, 8, 0, 9, 3,
       0, 4, 2, 8, 8, 0, 1, 7, 7, 9, 0, 4, 1, 7, 4, 4, 9, 7, 7, 9, 2 >>

\* the decimal exponent of FloatLimit = 0.17976931348623158... * 10^309
FloatLimitExp == 309

\* whether the decimal number of mantissa mant and exponent e is out of the
\* range of float64 (ErrRange): 0.d1d2... * 10^dp reaches FloatLimit
DecimalOverflow(mant, e) ==
    LET all == SelectSeq(mant, IsMantissaDigit)
        ds == [i \in 1 .. Len(all) |-> DigitVal(all[i])]
        z == LeadingZeros(ds)
        d == SubSeq(ds, z + 1, Len(ds))
        dp == IntegerDigits(mant) - z + e
        n == IF Len(d) > Len(FloatLimit) THEN Len(d) ELSE Len(FloatLimit)
    IN  /\ d # << >>
        /\ \/ dp > FloatLimitExp
           \/ /\ dp = FloatLimitExp
              /\ ~LexLess(PadRight(d, n), PadRight(FloatLimit, n))

\* the four bits of a hexadecimal digit
Nibble(h) == << h \div 8, (h \div 4) % 2, (h \div 2) % 2, h % 2 >>

\* the bits of the hexadecimal digits hs
HexBits(hs) ==
    [i \in 1 .. 4 * Len(hs) |->
        Nibble(HexVal(hs[(i + 3) \div 4]))[((i - 1) % 4) + 1]]

\* the bits a float64 keeps, and the one it rounds on
FloatBits == 54

\* the binary exponent above which a float64 is infinite
FloatMaxExp == 1024

\* whether the hexadecimal number of mantissa mant and binary exponent e is
\* out of the range of float64: 0.b1b2... * 2^p has p above 1024, or p at
\* 1024 and its first 54 bits set (it rounds up to 2^1024)
HexOverflow(mant, e) ==
    LET bits == HexBits(SelectSeq(mant, IsMantissaDigit))
        z == LeadingZeros(bits)
        b == SubSeq(bits, z + 1, Len(bits))
        p == 4 * IntegerDigits(mant) - z + e
    IN  /\ b # << >>
        /\ \/ p > FloatMaxExp
           \/ /\ p = FloatMaxExp
              /\ Len(b) >= FloatBits
              /\ \A i \in 1 .. FloatBits : b[i] = 1

\* Whether strconv.ParseFloat(s, 64) returns no error: s is "inf",
\* "infinity" or "nan", or it is a decimal or hexadecimal floating-point
\* number from its first to its last character and within float64's range.
IsNumber(s) ==
    \/ special(s)
    \/ LET r == readFloat(s)
       IN  /\ s # << >>
           /\ r.ok
           /\ r.end = Len(s) + 1
           /\ IF r.hex THEN ~HexOverflow(r.mant, r.exp)
              ELSE ~DecimalOverflow(r.mant, r.exp)

addSuffixIfArgIsNumber(s, suffix) ==
    IF IsNumber(s) THEN s \o suffix ELSE s

----------------------------------------------------------------------------
(* float64 arithmetic, for the fraction of a duration.  The numbers are in *)
(* base 2; a float64 is [m, e], the number m * 2^e with m of 53 bits at    *)
(* most (or 2^53).  The exponents met in ParseDuration stay far from the   *)
(* ends of float64's range.  A number is computed from its two halves.     *)

BinAdd(x, y) == AddBase(x, y, 2)

\* x - y for x >= y: the bit i lends when a bit below it is too small and
\* all the bits between them are equal
BinSub(x, y) ==
    LET n == Len(x)
        py == PadLeft(y, n)
        borrow(i) == \E j \in (i + 1) .. n :
                         /\ x[j] < py[j]
                         /\ \A k \in (i + 1) .. (j - 1) : x[k] = py[k]
    IN  IF y = << >> THEN x
        ELSE Norm([i \in 1 .. n |->
                 (x[i] - py[i] - (IF borrow(i) THEN 1 ELSE 0) + 2) % 2])

\* x * 2^k
BinShift(x, k) == IF x = << >> THEN x ELSE x \o [i \in 1 .. k |-> 0]

\* x times the number of the bits i..j of y
RECURSIVE BinMulRange(_, _, _, _)
BinMulRange(x, y, i, j) ==
    IF i > j THEN << >>
    ELSE IF i = j THEN (IF y[i] = 1 THEN x ELSE << >>)
    ELSE BinAdd(BinShift(BinMulRange(x, y, i, (i + j) \div 2),
                         j - (i + j) \div 2),
                BinMulRange(x, y, (i + j) \div 2 + 1, j))

BinMul(x, y) ==
    IF x = << >> \/ y = << >> THEN << >> ELSE BinMulRange(x, y, 1, Len(y))

\* The long division by d # 0 over the bits i..j of n, rem being the
\* remainder of the bits before them: the bits i..j of the quotient and
\* the remainder after them.
RECURSIVE BinDivRange(_, _, _, _, _)
BinDivRange(n, d, i, j, rem) ==
    IF i > j THEN [q |-> << >>, rem |-> rem]
    ELSE IF i = j
         THEN LET r == Norm(rem \o <<n[i]>>)
              IN  IF BigLess(r, d) THEN [q |-> <<0>>, rem |-> r]
                  ELSE [q |-> <<1>>, rem |-> BinSub(r, d)]
    ELSE LET a == BinDivRange(n, d, i, (i + j) \div 2, rem)
             b == BinDivRange(n, d, (i + j) \div 2 + 1, j, a.rem)
         IN  [q |-> a.q \o b.q, rem |-> b.rem]

\* the quotient q and the remainder rem of n by d # 0
BinDiv(n, d) ==
    LET r == BinDivRange(n, d, 1, Len(n), << >>)
    IN  IF BigLess(n, d) THEN [q |-> << >>, rem |-> n]
        ELSE [q |-> Norm(r.q), rem |-> r.rem]

\* the natural number n of the model's integers in binary
RECURSIVE IntToBits(_)
IntToBits(n) ==
    IF n = 0 THEN << >> ELSE IntToBits(n \div 2) \o << n % 2 >>

\* the number of at most 30 bits b as an integer
RECURSIVE BitsToInt(_)
BitsToInt(b) ==
    IF b = << >> THEN 0
    ELSE BitsToInt(SubSeq(b, 1, Len(b) - 1)) * 2 + b[Len(b)]

\* the natural number n of the model's integers in decimal
RECURSIVE IntToBig(_)
IntToBig(n) ==
    IF n = 0 THEN << >> ELSE IntToBig(n \div 10) \o << n % 10 >>

\* the decimal number x in binary, nine digits (below 10^9) at a time
RECURSIVE BinOf(_)
BinOf(x) ==
    IF Len(x) <= 9 THEN IntToBits(BigToInt(x))
    ELSE BinAdd(BinMul(BinOf(BigDrop(x, 9)), IntToBits(1000000000)),
                IntToBits(BigToInt(BigLast(x, 9))))

\* x times the number of the decimal digits i..j of y
RECURSIVE BigMulRange(_, _, _, _)
BigMulRange(x, y, i, j) ==
    IF i > j THEN << >>
    ELSE IF i = j THEN BigTimes(x, y[i])
    ELSE BigAdd(BigShift(BigMulRange(x, y, i, (i + j) \div 2),
                         j - (i + j) \div 2),
                BigMulRange(x, y, (i + j) \div 2 + 1, j))

\* x * y in decimal
BigMul(x, y) ==
    IF x = << >> \/ y = << >> THEN << >> ELSE BigMulRange(x, y, 1, Len(y))

\* the binary number b in decimal, thirty bits (below 2^30) at a time
RECURSIVE BigOfBin(_)
BigOfBin(b) ==
    IF Len(b) <= 30 THEN IntToBig(BitsToInt(b))
    ELSE BigAdd(BigMul(BigOfBin(SubSeq(b, 1, Len(b) - 30)),
                       IntToBig(1073741824)),
                IntToBig(BitsToInt(Norm(SubSeq(b, Len(b) - 29, Len(b))))))

\* the bits of a float64's mantissa
MantissaBits == 53

\* The float64 nearest to x * 2^e, or to a number just above it when
\* sticky is set; halfway cases go to the even mantissa.
RoundFloat(x, e, sticky) ==
    IF Len(x) <= MantissaBits THEN [m |-> x, e |-> e]
    ELSE LET keep == SubSeq(x, 1, MantissaBits)
             half == x[MantissaBits + 1] = 1
             more == sticky \/ \E i \in (MantissaBits + 2) .. Len(x) : x[i] = 1
             up == half /\ (more \/ keep[MantissaBits] = 1)
         IN  [m |-> IF up THEN BinAdd(keep, <<1>>) ELSE keep,
              e |-> e + Len(x) - MantissaBits]

\* float64(x) for a natural number x in binary
FloatOf(x) == RoundFloat(x, 0, FALSE)

\* a * b in float64
FloatMul(a, b) ==
    IF a.m = << >> \/ b.m = << >> THEN [m |-> << >>, e |-> 0]
    ELSE RoundFloat(BinMul(a.m, b.m), a.e + b.e, FALSE)

\* a / b in float64, b # 0 (no division is made by zero here): the quotient
\* is computed to 55 bits or more and the remainder tells whether it is
\* exact
FloatDiv(a, b) ==
    LET k == IF Len(b.m) + MantissaBits + 2 > Len(a.m)
             THEN Len(b.m) + MantissaBits + 2 - Len(a.m) ELSE 0
        r == BinDiv(BinShift(a.m, k), b.m)
    IN  IF a.m = << >> \/ b.m = << >> THEN [m |-> << >>, e |-> 0]
        ELSE RoundFloat(r.q, a.e - b.e - k, r.rem # << >>)

\* uint64(a) for a float64 a >= 0 below 2^64: the fraction is cut off
FloatTrunc(a) ==
    IF a.e >= 0 THEN BinShift(a.m, a.e)
    ELSE IF Len(a.m) <= -a.e THEN << >>
    ELSE SubSeq(a.m, 1, Len(a.m) + a.e)

\* a multiplied by 10 in float64, n times
RECURSIVE FloatTimesTen(_, _)
FloatTimesTen(a, n) ==
    IF n = 0 \/ a.m = << >> THEN a
    ELSE IF n = 1 THEN FloatMul(a, FloatOf(<<1, 0, 1, 0>>))
    ELSE LET h == FloatTimesTen(a, n \div 2)
         IN  IF h.m = << >> THEN h ELSE FloatTimesTen(h, n - n \div 2)

\* scale of leadingFraction after n digits
FloatScale(n) == FloatTimesTen(FloatOf(<<1>>), n)

----------------------------------------------------------------------------
(* time.ParseDuration.  A duration is counted in nanoseconds there, as a   *)
(* uint64 with a sign.                                                     *)

\* the two letters mu of unitMap: U+00B5 (micro sign) and U+03BC (Greek mu)
MicroSign == "U+00B5"
GreekMu   == "U+03BC"

\* unitMap's keys
KnownUnits ==
    { <<"n", "s">>, <<"u", "s">>, <<MicroSign, "s">>, <<GreekMu, "s">>,
      <<"m", "s">>, <<"s">>, <<"m">>, <<"h">> }

\* v * unitMap[u], in nanoseconds
UnitValue(u, v) ==
    CASE u = <<"n", "s">> -> v
      [] u \in { <<"u", "s">>, <<MicroSign, "s">>, <<GreekMu, "s">> }
                          -> BigShift(v, 3)
      [] u = <<"m", "s">> -> BigShift(v, 6)
      [] u = <<"s">>      -> BigShift(v, 9)
      [] u = <<"m">>      -> BigShift(BigTimes(v, 6), 10)
      [] u = <<"h">>      -> BigShift(BigTimes(v, 36), 11)

\* the first index from i on that holds a digit or a point
RECURSIVE UnitEnd(_, _)
UnitEnd(s, i) ==
    IF i <= Len(s) /\ s[i] \notin (Digits \cup {"."})
    THEN UnitEnd(s, i + 1) ELSE i

Failure(e) == [ok |-> FALSE, err |-> e, neg |-> FALSE, d |-> << >>]

\* leadingFraction over the digits s[i..j], from the state st of the
\* digits before them: the number f they make and how many of them (scale
\* is 10^n); the digits from the one that would take f above 1<<63 on are
\* left out (over)
RECURSIVE leadingFraction(_, _, _, _)
leadingFraction(s, i, j, st) ==
    IF i > j THEN st
    ELSE IF i = j
         THEN LET y == BigAdd(BigShift(st.f, 1), Norm(<<DigitVal(s[i])>>))
              IN  IF st.over THEN st
                  ELSE IF BigLess(TwoTo63, y) THEN [st EXCEPT !.over = TRUE]
                  ELSE [f |-> y, n |-> st.n + 1, over |-> FALSE]
    ELSE LET h == leadingFraction(s, i, (i + j) \div 2, st)
         IN  IF h.over THEN h
             ELSE leadingFraction(s, (i + j) \div 2 + 1, j, h)

\* d + v in uint64
WrapAdd(d, v) ==
    IF BigAdd(d, v) = TwoTo64 THEN << >> ELSE BigAdd(d, v)

\* uint64(float64(f) * (float64(unit) / scale)) for the fraction f of n
\* digits and the unit u, in nanoseconds
FractionValue(u, f, n) ==
    BigOfBin(FloatTrunc(FloatMul(FloatOf(BinOf(f)),
                 FloatDiv(FloatOf(BinOf(UnitValue(u, <<1>>))),
                          FloatScale(n)))))

\* The loop of time.ParseDuration from index i on, d being the sum so far:
\* numbers with an optional fraction, each followed by a unit.  leadingInt
\* fails when the digits before the point exceed 1<<63.
RECURSIVE ParseComponents(_, _, _)
ParseComponents(s, i, d) ==
    IF i > Len(s) THEN [ok |-> TRUE, err |-> "", neg |-> FALSE, d |-> d]
    ELSE IF s[i] \notin (Digits \cup {"."}) THEN Failure("invalid duration")
    ELSE
      LET j == DigitsEnd(s, i)
          v == BigOf(SubSeq(s, i, j - 1))
          pre == j > i
          dot == j <= Len(s) /\ s[j] = "."
          k == IF dot THEN DigitsEnd(s, j + 1) ELSE j
          post == dot /\ k > j + 1
          fr == leadingFraction(s, j + 1, k - 1,
                                [f |-> << >>, n |-> 0, over |-> FALSE])
          e == UnitEnd(s, k)
          unit == SubSeq(s, k, e - 1)
          whole == UnitValue(unit, v)
          sum == IF dot /\ fr.f # << >>
                 THEN BigAdd(whole, FractionValue(unit, fr.f, fr.n))
                 ELSE whole
      IN  IF BigLess(TwoTo63, v) THEN Failure("invalid duration")
          ELSE IF ~pre /\ ~post THEN Failure("invalid duration")
          ELSE IF e = k THEN Failure("missing unit in duration")
          ELSE IF unit \notin KnownUnits
               THEN Failure("unknown unit in duration")
          ELSE IF BigLess(TwoTo63, whole) THEN Failure("invalid duration")
          ELSE IF BigLess(TwoTo63, sum) THEN Failure("invalid duration")
          ELSE IF BigLess(TwoTo63, WrapAdd(d, sum))
               THEN Failure("invalid duration")
          ELSE ParseComponents(s, e, WrapAdd(d, sum))

\* The end of time.ParseDuration: the result r of the loop with the sign
\* of s; without a sign d must be below 1<<63.
Signed(s, r) ==
    IF ~r.ok THEN r
    ELSE IF s # << >> /\ s[1] = "-" THEN [r EXCEPT !.neg = TRUE]
    ELSE IF ~BigLess(r.d, TwoTo63) THEN Failure("invalid duration")
    ELSE r

\* (variant) a parser that takes the empty string for a zero duration
ParseDurationEmptyZero(s) ==
    IF Unsigned(s) = <<"0">> \/ Unsigned(s) = << >>
    THEN [ok |-> TRUE, err |-> "", neg |-> FALSE, d |-> << >>]
    ELSE Signed(s, ParseComponents(Unsigned(s), 1, << >>))

\* time.ParseDuration: [-+]?([0-9]*(\.[0-9]*)?[a-z]+)+, "0" alone being 0.
\* The result is the sign and the nanoseconds d.
ParseDuration(s) ==
    IF Unsigned(s) = <<"0">>
    THEN [ok |-> TRUE, err |-> "", neg |-> FALSE, d |-> << >>]
    ELSE IF Unsigned(s) = << >> THEN Failure("invalid duration")
    ELSE Signed(s, ParseComponents(Unsigned(s), 1, << >>))

\* The Duration r.d of a parse in the units of the model: the whole
\* microseconds of it (Micros) and the nanoseconds beyond them (SubMicros),
\* both of the sign of the duration, as Go's truncating division gives them.
Micros(r) ==
    LET q == BigToInt(BigDrop(r.d, 3))
    IN  IF r.neg THEN -q ELSE q

SubMicros(r) ==
    LET m == BigToInt(BigLast(r.d, 3))
    IN  IF r.neg THEN -m ELSE m

\* (variant) the durations collected in reverse order
RECURSIVE ParseTokensReversed(_, _, _)
ParseTokenReversed(toks, i, acc, r) ==
    IF ~r.ok
    THEN [ok |-> FALSE, err |-> r.err, durations |-> << >>, nanos |-> << >>]
    ELSE ParseTokensReversed(toks, i + 1,
             [durations |-> <<Micros(r)>> \o acc.durations,
              nanos |-> <<SubMicros(r)>> \o acc.nanos])

ParseTokensReversed(toks, i, acc) ==
    IF i > Len(toks)
    THEN [ok |-> TRUE, err |-> "",
          durations |-> acc.durations, nanos |-> acc.nanos]
    ELSE ParseTokenReversed(toks, i, acc,
             ParseDuration(addSuffixIfArgIsNumber(toks[i], <<"s">>)))

\* The loop of RunE over the tokens: each one gets the suffix "s" if it is
\* a number and is parsed; the first error ends the loop and RunE.
RECURSIVE ParseTokens(_, _, _)

\* the body of the loop after the parse r of the token toks[i]: return err,
\* or append the duration and go on
ParseToken(toks, i, acc, r) ==
    IF ~r.ok
    THEN [ok |-> FALSE, err |-> r.err, durations |-> << >>, nanos |-> << >>]
    ELSE ParseTokens(toks, i + 1,
             [durations |-> Append(acc.durations, Micros(r)),
              nanos |-> Append(acc.nanos, SubMicros(r))])

ParseTokens(toks, i, acc) ==
    IF i > Len(toks)
    THEN [ok |-> TRUE, err |-> "",
          durations |-> acc.durations, nanos |-> acc.nanos]
    ELSE ParseToken(toks, i, acc,
             ParseDuration(addSuffixIfArgIsNumber(toks[i], <<"s">>)))

\* RunE up to the construction of the model: the durations of args[0]
ParseArg(s) ==
    ParseTokens(splitTimerArgString(s), 1,
                [durations |-> << >>, nanos |-> << >>])

----------------------------------------------------------------------------
(* Messages.  A message is in flight from the moment the command that      *)
(* produces it is returned by Update until the event loop receives it.     *)
(* Every command runs on its own and sends its message when it is done, so *)
(* the messages in flight are received in any order.                       *)

Msg(type, id) == [type |-> type, ID |-> id, running |-> TRUE]

TickMsg(id)      == Msg("Tick", id)
TimeoutMsg(id)   == Msg("Timeout", id)
StartStopMsg(id) == Msg("StartStop", id)
QuitMsg          == Msg("Quit", 0)

\* the messages in flight after a handler returned the commands cmds
Emit(rest, cmds) == rest \cup cmds

----------------------------------------------------------------------------
(* The countdown: bubbles timer.Model as main.go uses it.                  *)

\* timer.New(d, timer.WithInterval(interval)), with the id nextID() gives
NewTimer(d, ns, interval, id) ==
    [Timeout |-> d, TimeoutNs |-> ns, Interval |-> interval, id |-> id,
     running |-> TRUE]

\* Timeout <= 0
Timedout(t) == ~Positive(t.Timeout, t.TimeoutNs)

Running(t) == ~Timedout(t) /\ t.running

\* timer.Model.Update(TickMsg): the new timer and the messages of its command
TimerTick(t, msg) ==
    IF ~Running(t) \/ (msg.ID # 0 /\ msg.ID # t.id)
    THEN [timer |-> t, cmds |-> {}]
    ELSE LET us == t.Timeout - t.Interval
             t2 == IF us < 0 /\ t.TimeoutNs > 0
                   THEN [t EXCEPT !.Timeout = us + 1,
                                  !.TimeoutNs = @ - 1000]
                   ELSE [t EXCEPT !.Timeout = us]
         IN  [timer |-> t2,
              cmds  |-> {TickMsg(t2.id)} \cup
                        (IF Timedout(t2) THEN {TimeoutMsg(t2.id)} ELSE {})]

\* timer.Model.Update(StartStopMsg)
TimerStartStop(t, msg) ==
    IF msg.ID # 0 /\ msg.ID # t.id
    THEN [timer |-> t, cmds |-> {}]
    ELSE [timer |-> [t EXCEPT !.running = msg.running],
          cmds  |-> {TickMsg(t.id)}]

\* (variant) the countdown of the new stage built from the stage left
PrevStageTimer(ds, ns, i, id) ==
    LET j == IF i > 0 THEN i - 1 ELSE 0
    IN  NewTimer(Stage(ds, j), Stage(ns, j), timerInterval(Stage(ds, j)), id)

\* timer.New(durations[i], timer.WithInterval(timerInterval(durations[i])))
StageTimer(ds, ns, i, id) ==
    NewTimer(Stage(ds, i), Stage(ns, i), timerInterval(Stage(ds, i)), id)

----------------------------------------------------------------------------
(* The progress bar: bubbles progress.Model, its width and target percent. *)

\* progress.SetPercent(float64(p)/100): the target is clamped to [0, 1]
SetPercent(pr, p) ==
    [pr EXCEPT !.percent = IF p < 0 THEN 0 ELSE IF p > 100 THEN 100 ELSE p]

SetWidth(pr, w) == [pr EXCEPT !.width = w]

----------------------------------------------------------------------------
(* Construction: rootCmd.RunE builds the model and starts the program;     *)
(* model.Init returns the first tick of the countdown.                     *)

DigitChar(n) ==
    CASE n = 0 -> "0" [] n = 1 -> "1" [] n = 2 -> "2" [] n = 3 -> "3"
      [] n = 4 -> "4" [] n = 5 -> "5" [] n = 6 -> "6" [] n = 7 -> "7"
      [] n = 8 -> "8" [] n = 9 -> "9"

RECURSIVE DigitsOf(_)
DigitsOf(n) ==
    IF n < 10 THEN <<DigitChar(n)>>
    ELSE DigitsOf(n \div 10) \o <<DigitChar(n % 10)>>

\* an argument that yields the stage list ds with the nanoseconds ns:
\* "250000us500ns,300000us0ns"
RECURSIVE ArgOf(_, _)
ArgOf(ds, ns) ==
    LET n == Len(ds)
        tok == DigitsOf(ds[n]) \o <<"u", "s">> \o
               DigitsOf(ns[n]) \o <<"n", "s">>
    IN  IF n = 1 THEN tok
        ELSE ArgOf(SubSeq(ds, 1, n - 1), SubSeq(ns, 1, n - 1))
                 \o <<",">> \o tok

InitWith(lists, subs) ==
    /\ durations \in lists
    /\ nanos \in [DOMAIN durations -> subs]
    /\ arg = ArgOf(durations, nanos)
    /\ err = ""
    /\ altscreen \in BOOLEAN
    /\ state = 0
    /\ passed = 0
    /\ start = 0
    /\ timer = StageTimer(durations, nanos, 0, 1)
    /\ progress = [width |-> defaultWidth, percent |-> 0]
    /\ quitting = FALSE
    /\ interrupting = FALSE
    /\ winHeight = 0
    /\ lastID = 1
    /\ msgs = {TickMsg(1)}
    /\ pc = "loop"
    /\ exitCode = -1
    /\ finished = FALSE
    /\ pct = 0
    /\ natural = FALSE
    /\ last = "Init"

Init == InitWith(StageLists, WholeMicros)

InitLong == InitWith(LongStageLists, WholeMicros)

InitTick == InitWith(TickStageLists, TickNanos)

\* RunE entered with args[0] and the --fullscreen flag, nothing built yet
InitParse ==
    /\ arg \in ArgStrings
    /\ altscreen \in BOOLEAN
    /\ err = ""
    /\ pc = "start"
    /\ durations = << >>
    /\ nanos = << >>
    /\ state = 0
    /\ passed = 0
    /\ start = 0
    /\ timer = NewTimer(0, 0, 0, 0)
    /\ progress = [width |-> 0, percent |-> 0]
    /\ quitting = FALSE
    /\ interrupting = FALSE
    /\ winHeight = 0
    /\ lastID = 0
    /\ msgs = {}
    /\ exitCode = -1
    /\ finished = FALSE
    /\ pct = 0
    /\ natural = FALSE
    /\ last = "none"

\* RunE after the loop over the tokens, r being what the loop gave: an error
\* is returned at once (exit status 1, no program), otherwise the model is
\* built from the durations and the program starts with the first tick of
\* model.Init.
StartWith(r) ==
    IF ~r.ok
    THEN /\ pc' = "exited"
         /\ exitCode' = 1
         /\ err' = r.err
         /\ UNCHANGED <<durations, nanos, timer, progress, lastID, msgs, last>>
    ELSE /\ durations' = r.durations
         /\ nanos' = r.nanos
         /\ timer' = StageTimer(r.durations, r.nanos, 0, 1)
         /\ progress' = [width |-> defaultWidth, percent |-> 0]
         /\ lastID' = 1
         /\ msgs' = {TickMsg(1)}
         /\ pc' = "loop"
         /\ last' = "Init"
         /\ UNCHANGED <<exitCode, err>>

\* RunE up to tea.NewProgram(...).Run(): the argument is split and parsed
Start ==
    /\ pc = "start"
    /\ StartWith(ParseArg(arg))
    /\ UNCHANGED <<arg, altscreen, state, passed, start, quitting,
                   interrupting, winHeight, finished, pct, natural>>

----------------------------------------------------------------------------
(* model.Update, one action per message type.                              *)

\* case timer.TickMsg.  The division panics when the stage has no whole
\* millisecond: Update does not return, the loop keeps the model it had and
\* Run ends with an error.  (The command of SetPercent only animates the bar
\* towards its target percent; the animation is not part of the model.)
HandleTick(msg) ==
    /\ pc = "loop"
    /\ UNCHANGED input
    /\ msg \in msgs
    /\ msg.type = "Tick"
    /\ last' = "Tick"
    /\ IF Milliseconds(Stage(durations, state)) = 0
       THEN /\ pc' = "panic"
            /\ msgs' = {}
            /\ UNCHANGED <<passed, pct, progress, timer>>
       ELSE LET passed2 == passed + timer.Interval
                pct2 == Percent(passed2, Stage(durations, state))
                r == TimerTick(timer, msg)
            IN  /\ passed' = passed2
                /\ pct' = pct2
                /\ progress' = SetPercent(progress, pct2)
                /\ timer' = r.timer
                /\ msgs' = Emit(msgs \ {msg}, r.cmds)
                /\ pc' = pc
    /\ UNCHANGED <<durations, nanos, altscreen, state, start, quitting,
                   interrupting, winHeight, lastID, exitCode, finished,
                   natural>>

\* (variant) a resize that also restarts the stage's elapsed time
HandleWindowSizeRestart(width, height) ==
    /\ pc = "loop"
    /\ UNCHANGED input
    /\ LET p1 == SetWidth(progress, width - padding * 2 - 4)
       IN  progress' = IF ~altscreen /\ p1.width > maxWidth
                       THEN SetWidth(p1, maxWidth)
                       ELSE p1
    /\ winHeight' = height
    /\ passed' = 0
    /\ last' = "WindowSize"
    /\ UNCHANGED <<durations, nanos, altscreen, state, start, timer,
                   quitting, interrupting, lastID, msgs, pc, exitCode,
                   finished, pct, natural>>

\* (variant) a resize without the clamp of the width
HandleWindowSizeNoClamp(width, height) ==
    /\ pc = "loop"
    /\ UNCHANGED input
    /\ progress' = SetWidth(progress, width - padding * 2 - 4)
    /\ winHeight' = height
    /\ last' = "WindowSize"
    /\ UNCHANGED <<durations, nanos, altscreen, state, passed, start, timer,
                   quitting, interrupting, lastID, msgs, pc, exitCode,
                   finished, pct, natural>>

\* case tea.WindowSizeMsg
HandleWindowSize(width, height) ==
    /\ pc = "loop"
    /\ UNCHANGED input
    /\ LET p1 == SetWidth(progress, width - padding * 2 - 4)
       IN  progress' = IF ~altscreen /\ p1.width > maxWidth
                       THEN SetWidth(p1, maxWidth)
                       ELSE p1
    /\ winHeight' = height
    /\ last' = "WindowSize"
    /\ UNCHANGED <<durations, nanos, altscreen, state, passed, start, timer,
                   quitting, interrupting, lastID, msgs, pc, exitCode,
                   finished, pct, natural>>

\* case timer.StartStopMsg
HandleStartStop(msg) ==
    /\ pc = "loop"
    /\ UNCHANGED input
    /\ msg \in msgs
    /\ msg.type = "StartStop"
    /\ LET r == TimerStartStop(timer, msg)
       IN  /\ timer' = r.timer
           /\ msgs' = Emit(msgs \ {msg}, r.cmds)
    /\ last' = "StartStop"
    /\ UNCHANGED <<durations, nanos, altscreen, state, passed, start, progress,
                   quitting, interrupting, winHeight, lastID, pc, exitCode,
                   finished, pct, natural>>

\* case timer.TimeoutMsg.  An index outside durations panics like the
\* division of the TickMsg case.
HandleTimeout(msg) ==
    /\ pc = "loop"
    /\ UNCHANGED input
    /\ msg \in msgs
    /\ msg.type = "Timeout"
    /\ last' = "Timeout"
    /\ IF LastStage(durations, state)
       THEN /\ quitting' = TRUE
            /\ natural' = TRUE
            /\ msgs' = Emit(msgs \ {msg}, {QuitMsg})
            /\ UNCHANGED <<state, start, passed, timer, lastID, pc>>
       ELSE IF ~InRange(durations, NextStage(state))
       THEN /\ pc' = "panic"
            /\ msgs' = {}
            /\ UNCHANGED <<state, start, passed, timer, lastID, quitting,
                           natural>>
       ELSE /\ state' = NextStage(state)
            /\ start' = start + 1
            /\ passed' = 0
            /\ lastID' = lastID + 1
            /\ timer' = StageTimer(durations, nanos, NextStage(state),
                                lastID + 1)
            /\ msgs' = Emit(msgs \ {msg}, {StartStopMsg(lastID + 1)})
            /\ UNCHANGED <<quitting, natural, pc>>
    /\ UNCHANGED <<durations, nanos, altscreen, progress, interrupting, winHeight,
                   exitCode, finished, pct>>

\* case tea.KeyMsg matching quitKeys ("esc", "q")
HandleKeyQuit ==
    /\ pc = "loop"
    /\ UNCHANGED input
    /\ quitting' = TRUE
    /\ msgs' = Emit(msgs, {QuitMsg})
    /\ last' = "KeyQuit"
    /\ UNCHANGED <<durations, nanos, altscreen, state, passed, start, timer,
                   progress, interrupting, winHeight, lastID, pc, exitCode,
                   finished, pct, natural>>

\* case tea.KeyMsg matching intKeys ("ctrl+c")
HandleKeyInt ==
    /\ pc = "loop"
    /\ UNCHANGED input
    /\ interrupting' = TRUE
    /\ msgs' = Emit(msgs, {QuitMsg})
    /\ last' = "KeyInt"
    /\ UNCHANGED <<durations, nanos, altscreen, state, passed, start, timer,
                   progress, quitting, winHeight, lastID, pc, exitCode,
                   finished, pct, natural>>

----------------------------------------------------------------------------
(* The event loop's end and the tail of rootCmd.RunE.                      *)

\* The loop receives tea.QuitMsg: Run returns the model as it is; what is
\* still in flight is never received.
ReceiveQuit ==
    /\ pc = "loop"
    /\ UNCHANGED input
    /\ QuitMsg \in msgs
    /\ pc' = "quit"
    /\ msgs' = {}
    /\ last' = "QuitMsg"
    /\ UNCHANGED <<durations, nanos, altscreen, state, passed, start, timer,
                   progress, quitting, interrupting, winHeight, lastID,
                   exitCode, finished, pct, natural>>

\* (variant) RunE without the test of the interrupting flag
RunResultNoInterrupt(p, intr) ==
    IF p = "panic"
    THEN [code |-> 1, finished |-> FALSE]
    ELSE [code |-> 0, finished |-> TRUE]

\* RunE after Run: an error of Run or the interrupting flag make RunE return
\* an error, which main turns into exit status 1; anything else prints
\* "finished!" and gives 0.
RunResult(p, intr) ==
    IF p = "panic" \/ intr
    THEN [code |-> 1, finished |-> FALSE]
    ELSE [code |-> 0, finished |-> TRUE]

Exit ==
    /\ pc \in {"quit", "panic"}
    /\ UNCHANGED input
    /\ pc' = "exited"
    /\ exitCode' = RunResult(pc, interrupting).code
    /\ finished' = RunResult(pc, interrupting).finished
    /\ UNCHANGED <<durations, nanos, altscreen, state, passed, start, timer,
                   progress, quitting, interrupting, winHeight, lastID,
                   msgs, pct, natural, last>>

Next ==
    \/ \E msg \in msgs : HandleTick(msg)
    \/ \E w \in Widths, h \in Heights : HandleWindowSize(w, h)
    \/ \E msg \in msgs : HandleStartStop(msg)
    \/ \E msg \in msgs : HandleTimeout(msg)
    \/ HandleKeyQuit
    \/ HandleKeyInt
    \/ ReceiveQuit
    \/ Exit

Spec == Init /\ [][Next]_vars

SpecLong == InitLong /\ [][Next]_vars

SpecTick == InitTick /\ [][Next]_vars

\* The program without key presses.  Every message in flight is received
\* in the end (the event loop reads its channel until it quits), so each
\* handler of a message is weakly fair; a resize is up to the terminal.
NextLive ==
    \/ \E msg \in msgs : HandleTick(msg)
    \/ \E w \in Widths, h \in Heights : HandleWindowSize(w, h)
    \/ \E msg \in msgs : HandleStartStop(msg)
    \/ \E msg \in msgs : HandleTimeout(msg)
    \/ ReceiveQuit
    \/ Exit

Fairness ==
    /\ WF_vars(\E msg \in msgs : HandleTick(msg))
    /\ WF_vars(\E msg \in msgs : HandleStartStop(msg))
    /\ WF_vars(\E msg \in msgs : HandleTimeout(msg))
    /\ WF_vars(ReceiveQuit)
    /\ WF_vars(Exit)

SpecLive == Init /\ [][NextLive]_vars /\ Fairness

NextParse ==
    \/ Start
    \/ Next

SpecParse == InitParse /\ [][NextParse]_vars

----------------------------------------------------------------------------
(* The session as the specification names it.                              *)

\* terminal: Interrupted once the interrupt key was handled (the flag RunE
\* tests), CompletedNaturally once the last stage's Timeout was handled
Terminal ==
    IF interrupting THEN "Interrupted"
    ELSE IF natural THEN "CompletedNaturally"
    ELSE "Running"

\* (variant) a view that is rendered in every state
ViewAlways ==
    << start,
       << start, Stage(durations, state), Stage(nanos, state) >>,
       << timer.Timeout, timer.TimeoutNs >>,
       progress,
       IF altscreen THEN GoDiv(winHeight - 2, 2) ELSE 0 >>

\* model.View: the empty string once quitting or interrupting is set,
\* otherwise the parts it renders: the start time, the end time
\* start.Add(durations[state]), the countdown timer.View(), the bar
\* progress.View() and, full-screen, the top margin (winHeight - 2) / 2.
\* The empty string is << >>.
View ==
    IF quitting \/ interrupting
    THEN << >>
    ELSE << start,
            << start, Stage(durations, state), Stage(nanos, state) >>,
            << timer.Timeout, timer.TimeoutNs >>,
            progress,
            IF altscreen THEN GoDiv(winHeight - 2, 2) ELSE 0 >>

\* The step is the loop handing a message of the given type to Update: the
\* program is in its loop, a message of the type is in flight, the case of
\* the type has run (last) and the step is not a stuttering one.  (The tick
\* a running countdown sends anew equals the one it consumed, so msgs' may
\* hold the message handled.)
Handles(type) ==
    /\ pc = "loop"
    /\ last' = type
    /\ \E m \in msgs : m.type = type
    /\ vars' # vars

----------------------------------------------------------------------------
(* C1 .. C10                                                               *)

\* C1: while Running, a Timeout handled at a stage that is not the last one
\* moves to the next stage, resets elapsed to 0 and starts a new countdown
\* of the new stage's duration; a Timeout handled at the last stage leaves
\* the stage index alone, completes the session and tells the loop to stop.
C1_TimeoutHandling ==
    [][ (Handles("Timeout") /\ Terminal = "Running" /\ pc' = "loop") =>
          IF state < Len(durations) - 1
          THEN /\ state' = state + 1
               /\ passed' = 0
               /\ timer'.Timeout = durations[state + 2]
               /\ timer'.TimeoutNs = nanos[state + 2]
               /\ timer'.running
               /\ timer'.id # timer.id
               /\ StartStopMsg(timer'.id) \in msgs'
               /\ Terminal' = "Running"
          ELSE /\ state' = state
               /\ Terminal' = "CompletedNaturally"
               /\ quitting'
               /\ QuitMsg \in msgs' ]_vars

\* C1 witness: "2s, 3s" after its second Timeout: stage 1 was entered by the
\* first one, the second one completed the session.
C1_Witness ==
    /\ durations = <<2 * Second, 3 * Second>>
    /\ last = "Timeout"
    /\ state = 1
    /\ Terminal = "CompletedNaturally"
    /\ QuitMsg \in msgs

\* C2: once the session is CompletedNaturally or Interrupted, handling a
\* further Tick changes nothing of elapsed, progress, stage index, terminal.
C2_TickAfterTerminal ==
    [][ (Terminal # "Running" /\ Handles("Tick")) =>
          /\ passed' = passed
          /\ progress' = progress
          /\ state' = state
          /\ Terminal' = Terminal ]_vars

\* C3: once the session is CompletedNaturally or Interrupted, no later step
\* changes which of the two it is.
C3_TerminalPermanent ==
    [][ Terminal # "Running" => Terminal' = Terminal ]_vars

\* C4: the interrupt key sets the interrupting flag and stops the loop, and
\* a run that ends with the flag set exits non-zero without "finished!"; the
\* quit key and the last Timeout stop the loop without touching the flag,
\* and a run whose loop was stopped with the flag unset prints "finished!"
\* and exits zero.
C4_InterruptVersusQuit ==
    [][ /\ (last' = "KeyInt" /\ pc = "loop") =>
              interrupting' /\ QuitMsg \in msgs'
        /\ (last' = "KeyQuit" /\ pc = "loop") =>
              (interrupting' = interrupting) /\ QuitMsg \in msgs'
        /\ (Handles("Timeout") /\ state = Len(durations) - 1) =>
              (interrupting' = interrupting) /\ QuitMsg \in msgs'
        /\ (pc = "quit" /\ pc' = "exited") =>
              IF interrupting
              THEN exitCode' # 0 /\ ~finished'
              ELSE exitCode' = 0 /\ finished' ]_vars

\* C4 witness: a run ended by the interrupt key has exited.
C4_Witness ==
    /\ pc = "exited"
    /\ last = "QuitMsg"
    /\ interrupting
    /\ ~quitting
    /\ exitCode = 1
    /\ ~finished

\* C5: in every state of the loop 0 <= elapsed <= stages[stageIndex].
C5_ElapsedBounded ==
    pc = "loop" => (0 <= passed /\ passed <= Stage(durations, state))

\* C6: the stage index stays within the stage list, and a step leaves it
\* alone or increases it by exactly one.
C6_StageIndex ==
    /\ [](0 <= state /\ state < Len(durations))
    /\ [][state' = state \/ state' = state + 1]_vars

\* C6 witness: the last of three stages was reached and completed.
C6_Witness ==
    /\ Len(durations) = 3
    /\ state = 2
    /\ natural

\* C7: a stage of non-positive duration never crashes the program.
C7_ZeroStageNoCrash ==
    ~Positive(Stage(durations, state), Stage(nanos, state)) => pc # "panic"

\* C8: with every stage duration positive, no handler crashes.
C8_TransitionsTotal ==
    (\A i \in 1 .. Len(durations) : Positive(durations[i], nanos[i])) => pc # "panic"

\* C9: after a Tick handled while the session is Running and the countdown
\* of the stage has not reached zero (its Timeout is not even produced yet),
\* the percent the handler computed is within 0..100 and the bar's target
\* is below 100%.
C9_NoFullBarBeforeTimeout ==
    (/\ pc = "loop"
     /\ last = "Tick"
     /\ Terminal = "Running"
     /\ ~quitting
     /\ ~Timedout(timer)) =>
        (0 <= pct /\ pct <= 100 /\ progress.percent < 100)

\* C10: the countdown of the current stage ticks every 100ms when the stage
\* lasts less than one minute and every second otherwise.
C10_TickCadence ==
    timer.Interval =
        IF Stage(durations, state) < 60 * Second
        THEN 100 * Millisecond
        ELSE 1 * Second

\* C10 witness: "59.999s, 60s" in its second stage, entered from a stage
\* that ticked every 100ms, after a tick of the new countdown.
C10_Witness ==
    /\ durations = <<59999 * Millisecond, 60 * Second>>
    /\ state = 1
    /\ timer.Interval = Second
    /\ timer.Timeout = 59 * Second
    /\ pc = "loop"

----------------------------------------------------------------------------
(* C11 .. C20                                                              *)

\* C11: a Tick the handler completes adds exactly the countdown's interval
\* to elapsed and computes the percent floor(elapsed_ms * 100 / stage_ms)
\* from the whole milliseconds of elapsed and of the stage (3.27s of a 10s
\* stage give 32); the bar's target is that percent, held at 100 at most.
C11_TickArithmetic ==
    [][ (Handles("Tick") /\ pc' = "loop") =>
          LET ems == (passed + timer.Interval) \div 1000
              sms == durations[state + 1] \div 1000
          IN  /\ passed' = passed + timer.Interval
              /\ pct' * sms <= ems * 100
              /\ ems * 100 < (pct' + 1) * sms
              /\ progress'.percent = IF pct' > 100 THEN 100 ELSE pct'
              /\ Percent(3270 * Millisecond, 10 * Second) = 32 ]_vars

\* C11 witness: the second tick of a 250.5ms stage: 200ms of 250 whole
\* milliseconds are 80 percent (79 if the microseconds were kept).
C11_Witness ==
    /\ Stage(durations, state) = 250500 * Microsecond
    /\ last = "Tick"
    /\ passed = 200 * Millisecond
    /\ pct = 80
    /\ progress.percent = 80


----------------------------------------------------------------------------
\* the arguments the specification lists as one and the same timer
CollapseExamples ==
    { <<"5", "m", ",", " ", "1", "0", "m">>,
      <<"5", "m", " ", "1", "0", "m">>,
      <<"5", "m", "-", "1", "0", "m">>,
      <<"5", "m", ",", ",", "1", "0", "m">> }

\* s begins and ends with a character of a token
Enclosed(s) ==
    /\ s # << >>
    /\ s[1] \notin SepChars
    /\ s[Len(s)] \notin SepChars

\* C12: once RunE has split and parsed the argument, each of "5m, 10m",
\* "5m 10m", "5m-10m" and "5m,,10m" has given the stages [5m, 10m] without
\* an error, and for every argument that begins and ends with a token the
\* separators between its tokens, however many in a row, have given no
\* empty token.
C12_SeparatorCollapsing ==
    pc # "start" =>
        /\ arg \in CollapseExamples =>
              /\ err = ""
              /\ durations = << 5 * Minute, 10 * Minute >>
        /\ Enclosed(arg) =>
              \A i \in DOMAIN splitTimerArgString(arg) :
                  splitTimerArgString(arg)[i] # << >>

----------------------------------------------------------------------------
\* the errors of time.ParseDuration, the only errors RunE returns before the
\* program runs
DurationErrors ==
    { "invalid duration", "missing unit in duration",
      "unknown unit in duration" }

\* RunE returned an error without building a model or running the program
Rejected ==
    /\ pc = "exited"
    /\ exitCode = 1
    /\ err # ""
    /\ ~finished
    /\ durations = << >>
    /\ msgs = {}
    /\ lastID = 0
    /\ last = "none"

\* a token of s that time.ParseDuration refuses
Unparsable(s) ==
    \E i \in DOMAIN splitTimerArgString(s) :
        ~ParseDuration(
            addSuffixIfArgIsNumber(splitTimerArgString(s)[i], <<"s">>)).ok

\* C13 (as stated): "" is rejected before any session as an empty
\* specification, tokenizing to zero tokens and failing with an error that
\* is not a duration format error, and "abc" is rejected before any session
\* with a duration format error.
C13_SpecRejection ==
    pc # "start" =>
        /\ arg = << >> =>
              /\ Rejected
              /\ splitTimerArgString(arg) = << >>
              /\ err \notin DurationErrors
        /\ arg = <<"a", "b", "c">> =>
              /\ Rejected
              /\ err \in DurationErrors

\* C13 (amended): "" and "abc" are both rejected with ParseDuration's
\* "invalid duration" error, "" being split into one empty token, and every
\* argument with a token ParseDuration refuses is rejected with one of
\* ParseDuration's errors before a model is built or the program is run.
C13_RejectionBeforeSession ==
    [][ /\ pc = "start" =>
              /\ arg \in { << >>, <<"a", "b", "c">> } =>
                    /\ Rejected'
                    /\ err' = "invalid duration"
              /\ splitTimerArgString(<< >>) = << << >> >>
              /\ Unparsable(arg) => Rejected' /\ err' \in DurationErrors
              /\ ~Unparsable(arg) => pc' = "loop" /\ err' = ""
        /\ pc = "exited" => UNCHANGED vars ]_vars

C13_Witness ==
    /\ arg = << >>
    /\ Rejected
    /\ err = "invalid duration"

----------------------------------------------------------------------------
\* the duration of the i-th token of s, as the loop of RunE computes it
TokenDuration(s, i) ==
    ParseDuration(addSuffixIfArgIsNumber(splitTimerArgString(s)[i], <<"s">>))

\* C14: for every argument whose tokens all parse, the stage list has one
\* stage per token, the i-th stage being the duration of the i-th token
\* ("5m,10m-15m" gives [5m, 10m, 15m]), and the stages are run in that
\* order: the stage index only ever moves to the next one, and the countdown
\* it then starts is that of the token at the new index.
C14_OrderPreserved ==
    [][ /\ pc # "start" => durations' = durations /\ nanos' = nanos
        /\ (pc = "start" /\ pc' = "loop") =>
              /\ ~Unparsable(arg)
              /\ Len(durations') = Len(splitTimerArgString(arg))
              /\ Len(nanos') = Len(durations')
              /\ \A i \in DOMAIN durations' :
                    /\ durations'[i] = Micros(TokenDuration(arg, i))
                    /\ nanos'[i] = SubMicros(TokenDuration(arg, i))
              /\ arg = <<"5", "m", ",", "1", "0", "m", "-", "1", "5", "m">> =>
                    durations' = << 5 * Minute, 10 * Minute, 15 * Minute >>
              /\ state' = 0
              /\ timer'.Timeout = durations'[1]
              /\ timer'.TimeoutNs = nanos'[1]
        /\ state' # state =>
              /\ state' = state + 1
              /\ timer'.Timeout = durations'[state' + 1]
              /\ timer'.TimeoutNs = nanos'[state' + 1] ]_vars

C14_Witness ==
    /\ arg = <<"5", "m", ",", "1", "0", "m", "-", "1", "5", "m">>
    /\ durations = << 5 * Minute, 10 * Minute, 15 * Minute >>
    /\ state = 2
    /\ last = "Timeout"
    /\ timer.Timeout = 15 * Minute

----------------------------------------------------------------------------
\* C15: a WindowSizeMsg leaves the stage index, the elapsed time, the stage
\* list, the countdown, the stage's start time, the quitting and
\* interrupting flags and the messages in flight as they were; of the
\* progress bar only the width can change, and the window height is the
\* one the message carries.
C15_ResizeFrame ==
    [][ (last' = "WindowSize" /\ pc = "loop") =>
          /\ UNCHANGED <<state, passed, durations, nanos, timer, start, quitting,
                         interrupting, msgs, lastID, pc, natural>>
          /\ progress'.percent = progress.percent
          /\ winHeight' \in Heights ]_vars

C15_Witness ==
    /\ last = "WindowSize"
    /\ state = 1
    /\ passed = 100 * Millisecond
    /\ timer.Timeout = 200 * Millisecond
    /\ progress.width = 52
    /\ winHeight = 24

----------------------------------------------------------------------------
\* the TimeoutMsg in flight
Timeouts(ms) == { m \in ms : m.type = "Timeout" }

\* C16: every stage produces its Timeout exactly once, at its end.  At most
\* one TimeoutMsg is in flight and it is the one of the current stage's
\* countdown; a TimeoutMsg is produced by the step that brings the countdown
\* from above zero to zero or below, with none in flight already, whether
\* the interval divides the stage or not; and no stage is ended by a crash
\* of the program, that is without a Timeout.
C16_OneTimeoutPerStage ==
    [][ /\ Cardinality(Timeouts(msgs')) <= 1
        /\ \A m \in Timeouts(msgs') : m.ID = timer'.id
        /\ Timeouts(msgs') \ Timeouts(msgs) # {} =>
              /\ ~Timedout(timer)
              /\ Timedout(timer')
              /\ Timeouts(msgs) = {}
        /\ pc' # "panic" ]_vars


----------------------------------------------------------------------------
\* C17: with every stage duration positive, no key pressed and every
\* message in flight received in the end, the session reaches
\* CompletedNaturally, having handled the Timeout of its last stage.
C17_Liveness ==
    (\A i \in 1 .. Len(durations) : Positive(durations[i], nanos[i])) =>
        <>(Terminal = "CompletedNaturally" /\ state = Len(durations) - 1)

----------------------------------------------------------------------------
\* C18 (as stated): while the program runs, the view is empty in every
\* state where the session is CompletedNaturally or Interrupted, and in every
\* state where it is Running the view is a rendering of the start time, the
\* end time start + stages[stageIndex], the countdown and the bar.
C18_ViewProduction ==
    pc = "loop" =>
        /\ Terminal \in {"CompletedNaturally", "Interrupted"} => View = << >>
        /\ Terminal = "Running" =>
              /\ View # << >>
              /\ View[1] = start
              /\ View[2] = << start, durations[state + 1], nanos[state + 1] >>
              /\ View[3] = << timer.Timeout, timer.TimeoutNs >>
              /\ View[4] = progress

\* C18 (amended): the view is empty in every state where the session is
\* CompletedNaturally or Interrupted and also once the quit key was handled
\* (quitting is set although the session is still Running); in every
\* other Running state it is a rendering of the start time, the end time
\* start + stages[stageIndex], the countdown and the bar.
C18_ViewWhileRunning ==
    pc = "loop" =>
        /\ Terminal \in {"CompletedNaturally", "Interrupted"} => View = << >>
        /\ (Terminal = "Running" /\ quitting) => View = << >>
        /\ (Terminal = "Running" /\ ~quitting) =>
              /\ View # << >>
              /\ View[1] = start
              /\ View[2] = << start, durations[state + 1], nanos[state + 1] >>
              /\ View[3] = << timer.Timeout, timer.TimeoutNs >>
              /\ View[4] = progress

C18_Witness ==
    /\ pc = "loop"
    /\ last = "KeyQuit"
    /\ Terminal = "Running"
    /\ state = 1
    /\ View = << >>

----------------------------------------------------------------------------
\* C19: a WindowSizeMsg of width W leaves the bar W - 8 wide when the
\* program is full-screen and min(W - 8, 80) wide when it is not, and
\* without full-screen the bar is never wider than 80, whatever resizes
\* came before.
C19_ResizeWidth ==
    [][ /\ (last' = "WindowSize" /\ pc = "loop") =>
              \E w \in Widths :
                  progress'.width = IF altscreen \/ w - 8 <= 80
                                    THEN w - 8
                                    ELSE 80
        /\ ~altscreen => progress'.width <= 80 ]_vars

C19_Witness ==
    /\ ~altscreen
    /\ last = "WindowSize"
    /\ progress.width = 80
    /\ passed > 0

----------------------------------------------------------------------------
\* C20: in every Running state of the loop the elapsed time and what is left
\* of the stage's countdown add up to the stage's duration (the elapsed time
\* is the interval times the ticks the stage's own countdown has consumed),
\* and a step that handles a tick of an earlier stage's countdown leaves the
\* elapsed time as it was.
C20_ElapsedInStep ==
    [][ /\ (pc' = "loop" /\ Terminal' = "Running") =>
              \E k \in {-1, 0, 1} :
                  /\ passed' + timer'.Timeout = durations'[state' + 1] + k
                  /\ timer'.TimeoutNs = nanos'[state' + 1] - 1000 * k
        /\ (/\ Handles("Tick")
            /\ \E m \in msgs \ msgs' : m.type = "Tick" /\ m.ID # timer.id) =>
              passed' = passed ]_vars
====
